---- MODULE Spec2Model ----
(***************************************************************************)
(* Ben-Or style binary consensus node (src/src/nodes/node.ts).             *)
(* Every node is an HTTP server with the routes /status, /getState,        *)
(* /message, /stop and /start; /start runs the round loop, which suspends  *)
(* at `await Promise.all(...)` (broadcast) and at `await delay(100)`       *)
(* (collection window).  Between two suspension points a handler runs      *)
(* atomically (single-threaded event loop).                                *)
(***************************************************************************)
EXTENDS Integers, FiniteSets, Bags, TLC

\* ---- bounds of the model ------------------------------------------------
MaxN == 2          \* largest network explored with every operation enabled
MaxNOnce == 3      \* largest network explored with one /start per node
MaxNGate == 4      \* largest network explored with F > N / 2
MaxLoops == 2      \* /start handlers per node that enter the round loop
MaxStarts == 3     \* such handlers in the whole network (Spec)
MaxPosted == 2     \* votes posted by other clients (Spec)
MaxLost == 1       \* fetch calls that fail (Spec)
MaxStopped == 1    \* nodes that /stop kills (Spec)

\* ---- program constants --------------------------------------------------
MAX_STEPS == 2     \* const MAX_STEPS = 2
SentinelK == 11    \* nodeState.k = 11
ForcedK == 2       \* nodeState.k = 2 in the forced final decision
Null == -1         \* JavaScript null in the number-valued fields x and k
Abstain == 7       \* the Value "?"

VARIABLES
  N,                \* number of nodes (parameter of node())
  F,                \* fault-tolerance parameter (parameter of node())
  isFaulty,         \* isFaulty[n]: parameter of node()
  nodeState,        \* nodeState[n] = [killed, x, decided, k]
  receivedMessages, \* receivedMessages[n][step]: bag of values received
  loops,            \* loops[n][s]: position of the s-th /start handler of n
  net,              \* vote messages (fetch calls) in flight
  lost,             \* number of fetch calls that failed
  posted            \* number of votes posted by clients other than the nodes

vars == <<N, F, isFaulty, nodeState, receivedMessages, loops, net, lost, posted>>

Nodes == 0 .. (N - 1)
Steps == 0 .. (MAX_STEPS - 1)
Slots == 1 .. MaxLoops

\* ---- construction: node(nodeId, N, F, initialValue, isFaulty, ...) ------
InitialNodeStateIgnoresFaulty(initialValue, faulty) ==
  [killed |-> FALSE, x |-> initialValue, decided |-> "false", k |-> 0]

InitialNodeState(initialValue, faulty) ==
  [killed  |-> FALSE,
   x       |-> IF faulty THEN Null ELSE initialValue,
   decided |-> IF faulty THEN "null" ELSE "false",
   k       |-> IF faulty THEN Null ELSE 0]

IdleLoop == [pc |-> "idle", round |-> 0]

\* A network of n nodes, the last nf of them faulty, with the given
\* initial values.
Network(n, f, nf, values) ==
  /\ N = n
  /\ F = f
  /\ isFaulty = [i \in 0 .. (n - 1) |-> i >= n - nf]
  /\ nodeState = [i \in 0 .. (n - 1) |->
                    InitialNodeState(values[i], i >= n - nf)]
  /\ receivedMessages = [i \in 0 .. (n - 1) |-> [s \in Steps |-> EmptyBag]]
  /\ loops = [i \in 0 .. (n - 1) |-> [s \in Slots |-> IdleLoop]]
  /\ net = {}
  /\ lost = 0
  /\ posted = 0

InitialValues == {0, 1}
Values == {0, 1, Abstain}

Sorted(n, nf, values) ==
  \A i \in 0 .. (n - 1) : \A j \in 0 .. (n - 1) :
    (i < j /\ j < n - nf) => values[i] <= values[j]

\* every network of 1..maxN nodes with F <= N and at most F faulty nodes;
\* the non-faulty nodes' initial values in non-decreasing order (the code
\* treats node ids symmetrically)
Networks(maxN) ==
  \E n \in 1 .. maxN : \E f \in 0 .. n : \E nf \in 0 .. f :
    \E values \in [0 .. (n - 1) -> InitialValues] :
      /\ \A i \in 0 .. (n - 1) : i >= n - nf => values[i] = 0
      /\ Sorted(n, nf, values)
      /\ Network(n, f, nf, values)

Init == Networks(MaxN)

\* ---- helpers ------------------------------------------------------------
SetState(n, st) == nodeState' = [nodeState EXCEPT ![n] = st]

ExceedsOnlyAboveN == F > N

\* if (F > N / 2)
ExceedsFaultTolerance == 2 * F > N

\* messages.filter(v => v !== "?").filter(v => v === b).length
CountValue(messages, b) == IF b = Abstain THEN 0 ELSE CopiesIn(b, messages)

NewXTieGoesToOne(countOnes, countZeros, coin) ==
  IF countOnes >= countZeros THEN 1 ELSE 0

\* lines 140-146: the new x from the two counts and the coin
NewX(countOnes, countZeros, coin) ==
  IF countOnes > countZeros THEN 1
  ELSE IF countZeros > countOnes THEN 0
  ELSE coin

SuperMajorityOffByOne(countX) == countX >= N - F - 1

\* line 150: if (countX >= N - F)
SuperMajority(countX) == countX >= N - F

\* !nodeState.decided
NotDecided(st) == st.decided # "true"

BroadcastToAll(n, s, round, x) ==
  {[from |-> n, slot |-> s, to |-> i, step |-> round, value |-> x] :
     i \in Nodes}

\* lines 119-129: one fetch per peer i !== nodeId, all carrying x
Broadcast(n, s, round, x) ==
  {[from |-> n, slot |-> s, to |-> i, step |-> round, value |-> x] :
     i \in Nodes \ {n}}

ForceFinalOmitted(st) == st

ForceFinalAtSentinel(st) ==
  IF NotDecided(st)
  THEN [st EXCEPT !.x = 1, !.decided = "true", !.k = SentinelK]
  ELSE st

\* lines 158-162
ForceFinal(st) ==
  IF NotDecided(st)
  THEN [st EXCEPT !.x = 1, !.decided = "true", !.k = ForcedK]
  ELSE st

\* ---- routes -------------------------------------------------------------
\* GET /status
StatusResponse(n) == IF isFaulty[n] THEN "faulty" ELSE "live"

Status(n) ==
  /\ n \in Nodes
  /\ StatusResponse(n) \in {"faulty", "live"}
  /\ UNCHANGED vars

\* GET /getState
GetState(n) ==
  /\ n \in Nodes
  /\ UNCHANGED vars

MessageResponseAlwaysOk(n) == 200

\* POST /message: the response status
MessageResponse(n) == IF nodeState[n].killed THEN 400 ELSE 200

\* POST /message handler body
Message(n, step, value) ==
  IF MessageResponse(n) = 400
  THEN UNCHANGED receivedMessages
  ELSE receivedMessages' =
         [receivedMessages EXCEPT ![n][step] = @ (+) SetToBag({value})]

DeliverAdoptsValue(m) ==
  /\ m \in net
  /\ net' = net \ {m}
  /\ Message(m.to, m.step, m.value)
  /\ SetState(m.to, [nodeState[m.to] EXCEPT !.x = m.value])
  /\ UNCHANGED <<N, F, isFaulty, loops, lost, posted>>

\* a fetch reaches its peer, whose /message handler runs
Deliver(m) ==
  /\ m \in net
  /\ net' = net \ {m}
  /\ Message(m.to, m.step, m.value)
  /\ UNCHANGED <<N, F, isFaulty, nodeState, loops, lost, posted>>

\* a client other than the nodes posts a vote to /message
Post(n, step, value) ==
  /\ n \in Nodes
  /\ posted' = posted + 1
  /\ Message(n, step, value)
  /\ UNCHANGED <<N, F, isFaulty, nodeState, loops, net, lost>>

\* a fetch fails: .catch(err => console.error(...))
Lose(m) ==
  /\ m \in net
  /\ lost' = lost + 1
  /\ net' = net \ {m}
  /\ UNCHANGED <<N, F, isFaulty, nodeState, receivedMessages, loops, posted>>

\* GET /stop
StopResponse(n) == 200

Started == {p \in Nodes \X Slots : loops[p[1]][p[2]].pc # "idle"}
Stopped == {i \in Nodes : nodeState[i].killed}

StopLeavesKilled(n) ==
  /\ n \in Nodes
  /\ SetState(n, [nodeState[n] EXCEPT !.x = Null, !.decided = "null", !.k = Null])
  /\ UNCHANGED <<N, F, isFaulty, receivedMessages, loops, net, lost, posted>>

Stop(n) ==
  /\ n \in Nodes
  /\ SetState(n, [killed |-> TRUE, x |-> Null, decided |-> "null", k |-> Null])
  /\ UNCHANGED <<N, F, isFaulty, receivedMessages, loops, net, lost, posted>>

StartResponseAlwaysOk(n) == 200

\* GET /start: the response status of the synchronous part
StartResponse(n) == IF nodeState[n].killed THEN 400 ELSE 200

\* GET /start: the status text of the response (lines 87, 93, 105, 165)
StartStatus(n) ==
  IF nodeState[n].killed THEN "Node is stopped"
  ELSE IF isFaulty[n] THEN "Faulty node, not participating"
  ELSE IF ExceedsFaultTolerance THEN "Exceeding fault tolerance => no finality"
  ELSE "Consensus process finished"

\* the top of one iteration of the for loop (lines 114-129), entered with
\* the node state st; the loop is left when round = MAX_STEPS or killed
LoopHead(n, s, round, st) ==
  IF round < MAX_STEPS /\ ~st.killed
  THEN /\ SetState(n, [st EXCEPT !.k = round])
       /\ net' = net \cup Broadcast(n, s, round, st.x)
       /\ loops' = [loops EXCEPT ![n][s] = [pc |-> "broadcast", round |-> round]]
  ELSE /\ SetState(n, ForceFinal(st))
       /\ net' = net
       /\ loops' = [loops EXCEPT ![n][s] = [pc |-> "done", round |-> 0]]

\* GET /start, up to the first await or the return
Start(n) ==
  /\ n \in Nodes
  /\ IF StartResponse(n) = 400
     THEN UNCHANGED vars
     ELSE IF isFaulty[n]
     THEN /\ SetState(n, [nodeState[n] EXCEPT
                            !.x = Null, !.decided = "null", !.k = Null])
          /\ UNCHANGED <<N, F, isFaulty, receivedMessages, loops, net, lost, posted>>
     ELSE IF ExceedsFaultTolerance
     THEN /\ SetState(n, [killed  |-> TRUE,
                          x       |-> IF nodeState[n].x = Null THEN 1
                                      ELSE nodeState[n].x,
                          decided |-> "false",
                          k       |-> SentinelK])
          /\ UNCHANGED <<N, F, isFaulty, receivedMessages, loops, net, lost, posted>>
     ELSE \E s \in Slots :
            /\ loops[n][s].pc = "idle"
            /\ \A t \in Slots : t < s => loops[n][t].pc # "idle"
            /\ LoopHead(n, s, 0, nodeState[n])
            /\ UNCHANGED <<N, F, isFaulty, receivedMessages, lost, posted>>

\* await Promise.all(...) resumes once every fetch of the round has settled
BroadcastDone(n, s) ==
  /\ n \in Nodes
  /\ loops[n][s].pc = "broadcast"
  /\ ~ \E m \in net : m.from = n /\ m.slot = s
  /\ loops' = [loops EXCEPT ![n][s].pc = "collect"]
  /\ UNCHANGED <<N, F, isFaulty, nodeState, receivedMessages, net, lost, posted>>

TalliedIntoFreshState(n, round, coin) ==
  LET messages   == receivedMessages[n][round]
      x          == NewX(CountValue(messages, 1), CountValue(messages, 0), coin)
  IN  [killed  |-> FALSE,
       x       |-> x,
       decided |-> IF SuperMajority(CountValue(messages, x)) THEN "true"
                   ELSE nodeState[n].decided,
       k       |-> nodeState[n].k]

\* lines 135-154: the node state after the tally of `round` with this coin,
\* and whether the loop breaks
Tallied(n, round, coin) ==
  LET messages   == receivedMessages[n][round]
      countOnes  == CountValue(messages, 1)
      countZeros == CountValue(messages, 0)
      x          == NewX(countOnes, countZeros, coin)
      countX     == CountValue(messages, x)
  IN  [nodeState[n] EXCEPT
         !.x = x,
         !.decided = IF SuperMajority(countX) THEN "true" ELSE @]

Decides(n, round, coin) ==
  LET messages   == receivedMessages[n][round]
      x          == Tallied(n, round, coin).x
  IN  SuperMajority(CountValue(messages, x))

NextRoundNoBreak(round, decides) == round + 1

\* where the loop goes after the tally of `round`: `break` on a decision
\* (lines 150-154) leaves it as round = MAX_STEPS does, else round++
NextRound(round, decides) == IF decides THEN MAX_STEPS ELSE round + 1

\* the handler resumes after await delay(100): tally, decide, and either
\* the next iteration up to its await, or the code after the loop
TallyWithHiddenCoin(n, s, coin) ==
  /\ n \in Nodes
  /\ loops[n][s].pc = "collect"
  /\ \E hidden \in {0, 1} :
       LET round == loops[n][s].round
           st    == Tallied(n, round, hidden)
       IN  LoopHead(n, s, NextRound(round, Decides(n, round, hidden)), st)
  /\ UNCHANGED <<N, F, isFaulty, receivedMessages, lost, posted>>

\* with `coin` the value randomBit() returns if line 145 calls it
TallyWithCoin(n, s, coin) ==
  /\ n \in Nodes
  /\ loops[n][s].pc = "collect"
  /\ LET round == loops[n][s].round
         st    == Tallied(n, round, coin)
     IN  LoopHead(n, s, NextRound(round, Decides(n, round, coin)), st)
  /\ UNCHANGED <<N, F, isFaulty, receivedMessages, lost, posted>>

Tally(n, s) == \E coin \in {0, 1} : TallyWithCoin(n, s, coin)

\* ---- specifications ------------------------------------------------------
\* the budgets of Spec: a /start that would enter the round loop, a /stop
\* that kills a live node, a failing fetch
MayStart(n) ==
  \/ nodeState[n].killed \/ isFaulty[n] \/ ExceedsFaultTolerance
  \/ Cardinality(Started) < MaxStarts
MayStop(n) ==
  \/ n \in Stopped \/ ExceedsFaultTolerance
  \/ Cardinality(Stopped) < MaxStopped
MayLose == lost < MaxLost
MayPost == posted < MaxPosted

Next ==
  \/ \E n \in Nodes : MayStart(n) /\ Start(n)
  \/ \E n \in Nodes : MayStop(n) /\ Stop(n)
  \/ \E n \in Nodes : Status(n)
  \/ \E n \in Nodes : GetState(n)
  \/ \E m \in net : Deliver(m)
  \/ \E m \in net : MayLose /\ Lose(m)
  \/ \E n \in Nodes : \E s \in Slots : BroadcastDone(n, s)
  \/ \E n \in Nodes : \E s \in Slots : Tally(n, s)

Spec == Init /\ [][Next]_vars

\* one /start per node, no /stop, every fetch reaches its peer
InitOnce == Networks(MaxNOnce)

NextOnce ==
  \/ \E n \in Nodes : loops[n][1].pc = "idle" /\ Start(n)
  \/ \E m \in net : Deliver(m)
  \/ \E n \in Nodes : \E s \in Slots : BroadcastDone(n, s)
  \/ \E n \in Nodes : \E s \in Slots : Tally(n, s)

SpecOnce == InitOnce /\ [][NextOnce]_vars

\* Spec with the scheduling the runtime guarantees: a pending fetch settles,
\* a settled Promise.all and an expired delay(100) resume their handler
Progress ==
  \/ \E m \in net : Deliver(m)
  \/ \E n \in Nodes : \E s \in Slots : BroadcastDone(n, s)
  \/ \E n \in Nodes : \E s \in Slots : Tally(n, s)

\* one /start per node, with /stop and failing fetches unbounded
NextLive ==
  \/ \E n \in Nodes : loops[n][1].pc = "idle" /\ Start(n)
  \/ \E n \in Nodes : Stop(n)
  \/ \E m \in net : Deliver(m)
  \/ \E m \in net : Lose(m)
  \/ \E n \in Nodes : \E s \in Slots : BroadcastDone(n, s)
  \/ \E n \in Nodes : \E s \in Slots : Tally(n, s)

LiveSpec == Init /\ [][NextLive]_vars /\ WF_vars(Progress)

\* one /start per node, /stop unbounded, votes posted by other clients
NextPost ==
  \/ \E n \in Nodes : loops[n][1].pc = "idle" /\ Start(n)
  \/ \E n \in Nodes : Stop(n)
  \/ \E n \in Nodes : \E step \in Steps : \E value \in Values :
       MayPost /\ Post(n, step, value)
  \/ \E m \in net : Deliver(m)
  \/ \E n \in Nodes : \E s \in Slots : BroadcastDone(n, s)
  \/ \E n \in Nodes : \E s \in Slots : Tally(n, s)

SpecPost == Init /\ [][NextPost]_vars

\* the networks that exceed the fault tolerance; no round loop is entered
\* there, so that no fetch and no suspended handler exists
InitGate == Networks(MaxNGate) /\ 2 * F > N

NextGate ==
  \/ \E n \in Nodes : Start(n)
  \/ \E n \in Nodes : Stop(n)
  \/ \E n \in Nodes : Status(n)
  \/ \E n \in Nodes : GetState(n)

SpecGate == InitGate /\ [][NextGate]_vars

\* the concrete scenarios: A (N = 4, F = 1, values 0 0 0 1, the fourth node
\* non-faulty or faulty) and C (N = 2, F = 0, values 0 1); one /start per
\* node, every fetch reaches its peer, and the collection window of round 0
\* is long enough for every round-0 vote to arrive before any round-0 tally
InitScenario ==
  \/ \E nf \in {0, 1} : Network(4, 1, nf, [i \in 0 .. 3 |-> IF i = 3 THEN 1 ELSE 0])
  \/ Network(2, 0, 0, [i \in 0 .. 1 |-> i])

RoundZeroDelivered ==
  /\ \A i \in Nodes : isFaulty[i] \/ loops[i][1].pc # "idle"
  /\ ~ \E m \in net : m.step = 0

NextScenario ==
  \/ \E n \in Nodes : loops[n][1].pc = "idle" /\ Start(n)
  \/ \E m \in net : Deliver(m)
  \/ \E n \in Nodes : \E s \in Slots : BroadcastDone(n, s)
  \/ \E n \in Nodes : \E s \in Slots :
       (loops[n][s].round = 0 => RoundZeroDelivered) /\ Tally(n, s)

SpecScenario == InitScenario /\ [][NextScenario]_vars

\* ---- claims --------------------------------------------------------------
Decided(n) == ~isFaulty[n] /\ nodeState[n].decided = "true"

\* C1 (Agreement): with every non-faulty node started once and never
\* stopped, no two non-faulty nodes are both decided while one holds x = 0
\* and the other x = 1.
C1_Agreement ==
  \A i \in Nodes : \A j \in Nodes :
    (Decided(i) /\ Decided(j)) =>
      ~(nodeState[i].x = 0 /\ nodeState[j].x = 1)

Running(n, s) == n \in Nodes /\ loops[n][s].pc \in {"broadcast", "collect"}

Terminal(n) ==
  /\ nodeState[n].decided = "true"
  /\ nodeState[n].k \in 0 .. ForcedK

\* C2 (Bounded termination): every round loop a non-faulty node runs for
\* /start returns, and unless the node was killed it then has decided =
\* true with k <= 2, whatever happens to the votes (delivered in time, late,
\* lost, rejected by a killed peer).
C2_BoundedTermination ==
  \A n \in 0 .. (MaxN - 1) : \A s \in 1 .. MaxLoops :
    [](Running(n, s) =>
         <>(/\ n \in Nodes
            /\ loops[n][s].pc = "done"
            /\ nodeState[n].killed \/ Terminal(n)))

\* a node that lost a vote, never was killed and ended at the round cap
C2_Witness ==
  \E n \in Nodes :
    /\ loops[n][1].pc = "done" /\ ~nodeState[n].killed
    /\ Terminal(n) /\ nodeState[n].k = ForcedK
    /\ lost > 0

\* ---- C3 ----
OneStart(n) == \A s \in Slots \ {1} : loops[n][s].pc = "idle"

\* numeric votes equal to v in the buffer of round r (no buffer: none)
VotesFor(n, r, v) ==
  IF r \in Steps THEN CountValue(receivedMessages[n][r], v) ELSE 0

\* C3 as stated (Supermajority decision correctness): whenever decided =
\* true with x = v and k = r, the buffer of round r holds at least N - F
\* votes equal to v, also for a decision forced at the round cap.  Stated
\* for nodes that were not stopped, so that what refutes it is the round
\* cap alone.
C3_SupermajorityAlways ==
  \A n \in Nodes :
    (~nodeState[n].killed /\ nodeState[n].decided = "true") =>
      VotesFor(n, nodeState[n].k, nodeState[n].x) >= N - F

\* C3 amended: for a node whose /start ran at most once, decided = true
\* with x = v and a round k = r below the cap (r < MAX_STEPS) implies that
\* the buffer of round r holds at least N - F votes equal to v.
C3_SupermajorityBelowCap ==
  \A n \in Nodes :
    (OneStart(n) /\ nodeState[n].decided = "true" /\ nodeState[n].k \in Steps) =>
      VotesFor(n, nodeState[n].k, nodeState[n].x) >= N - F

\* a node decided below the cap on two equal votes
C3_Witness ==
  \E n \in Nodes :
    /\ OneStart(n) /\ nodeState[n].decided = "true" /\ nodeState[n].k \in Steps
    /\ N - F >= 2
    /\ loops[n][1].pc = "done"

\* ---- C4 ----
Nulls(st) == st.x = Null /\ st.decided = "null" /\ st.k = Null

\* C4 (Feasibility gate): with F > N/2, /start on a non-faulty, non-killed
\* node sets, in that step, decided = false, k = 11, killed = true and
\* keeps its x (1 if it was null), and no vote message is ever in flight.
C4_FeasibilityGate ==
  /\ [](2 * F > N => (net = {} /\ Started = {}))
  /\ [][\A n \in Nodes :
          (2 * F > N /\ ~isFaulty[n] /\ ~nodeState[n].killed /\ Start(n)) =>
            /\ nodeState'[n] =
                 [killed  |-> TRUE,
                  x       |-> IF nodeState[n].x = Null THEN 1 ELSE nodeState[n].x,
                  decided |-> "false",
                  k       |-> SentinelK]
            /\ nodeState'[n].x # Null
            /\ net' = {}]_vars

C4_Witness ==
  \E n \in Nodes :
    /\ 2 * F > N /\ ~isFaulty[n]
    /\ nodeState[n].killed /\ nodeState[n].decided = "false"
    /\ nodeState[n].k = SentinelK /\ nodeState[n].x \in {0, 1}

\* ---- C5 ----
\* C5 (Cancellation): once /stop has run on a node whose round loop is in
\* progress, no later step sends a vote of that node or changes x, decided
\* or k: they stay null.
C5_Cancellation ==
  [][\A n \in Nodes :
       (~(2 * F > N) /\ nodeState[n].killed /\ (\E s \in Slots : Running(n, s))) =>
         /\ Nulls(nodeState'[n])
         /\ \A m \in net' \ net : m.from # n]_vars

\* ---- C6 ----
SameValues(n) ==
  /\ nodeState'[n].x = nodeState[n].x
  /\ nodeState'[n].decided = nodeState[n].decided
  /\ nodeState'[n].k = nodeState[n].k

\* C6 as stated (Decision is terminal): once decided = true, x, decided and
\* k keep their values in every later state, whatever is invoked.  Stated
\* for decisions of nodes that were not stopped before, so that what
\* refutes it does not rest on a round loop that outlived a /stop.
C6_DecisionTerminal ==
  [][\A n \in Nodes :
       (nodeState[n].decided = "true" /\ ~nodeState[n].killed) =>
         SameValues(n)]_vars

\* C6 amended: for a node whose /start enters the round loop at most once,
\* once decided = true, x, decided and k keep their values over every step
\* that is not a /stop on that node (which sets all three to null).
C6_DecisionTerminalUntilStop ==
  [][\A n \in Nodes :
       (nodeState[n].decided = "true" /\ OneStart(n)' /\ ~Stop(n)) =>
         SameValues(n)]_vars

\* a node that accepted a vote after its decision: with N - F = 1 a vote
\* of round 1 received before the tally of round 1 would have decided it
\* at k = 1, not at the cap
C6_Witness ==
  \E n \in Nodes :
    /\ nodeState[n].decided = "true" /\ OneStart(n) /\ loops[n][1].pc = "done"
    /\ ~nodeState[n].killed
    /\ N - F = 1 /\ nodeState[n].k = ForcedK
    /\ BagCardinality(receivedMessages[n][1]) >= 1

\* ---- C7 ----
\* C7 (Idempotent stop): a /stop on a node that /stop already killed leaves
\* killed, x, decided and k as they were.
C7_IdempotentStop ==
  [][\A n \in Nodes :
       (~(2 * F > N) /\ nodeState[n].killed /\ Stop(n)) =>
         (nodeState'[n] = nodeState[n] /\ StopResponse(n) = 200)]_vars

\* ---- C8 ----
\* C8 (Message-after-stop rejection): a vote that reaches a killed node is
\* answered 400 and no buffer changes; a vote that reaches a node that is
\* not killed is answered 200 and is appended once to the buffer of the
\* round it names, and no other buffer changes.
HandledVote(n, step, value) ==
  IF nodeState[n].killed
  THEN /\ MessageResponse(n) = 400
       /\ receivedMessages' = receivedMessages
  ELSE /\ MessageResponse(n) = 200
       /\ \A v \in Values :
            CopiesIn(v, receivedMessages'[n][step]) =
              CopiesIn(v, receivedMessages[n][step]) + (IF v = value THEN 1 ELSE 0)
       /\ \A i \in Nodes : \A r \in Steps :
            (i # n \/ r # step) => receivedMessages'[i][r] = receivedMessages[i][r]

C8_MessageAfterStop ==
  [][/\ \A m \in net : Deliver(m) => HandledVote(m.to, m.step, m.value)
     /\ \A n \in Nodes : \A step \in Steps : \A value \in Values :
          Post(n, step, value) => HandledVote(n, step, value)]_vars

\* with no round loop started, of two posted votes one was rejected by a
\* killed node and the other is the only vote in any buffer
C8_Witness ==
  /\ posted = 2 /\ net = {}
  /\ \A n \in Nodes : \A s \in Slots : loops[n][s].pc = "idle"
  /\ \E n \in Nodes : nodeState[n].killed
  /\ \E i \in Nodes : \E r \in Steps :
       /\ ~nodeState[i].killed
       /\ BagCardinality(receivedMessages[i][r]) = 1
       /\ \A j \in Nodes : \A q \in Steps :
            (j # i \/ q # r) => receivedMessages[j][q] = EmptyBag

\* ---- C9, C10 ----
PastRoundZero(n) ==
  \/ loops[n][1].pc = "done"
  \/ loops[n][1].pc \in {"broadcast", "collect"} /\ loops[n][1].round > 0

\* C9 (Scenario A): each of the three nodes that started with x = 0 ends
\* its /start with x = 0, decided = true, k = 0.
C9_ScenarioA ==
  N = 4 =>
    \A n \in 0 .. 2 :
      loops[n][1].pc = "done" =>
        /\ nodeState[n].x = 0
        /\ nodeState[n].decided = "true"
        /\ nodeState[n].k = 0

\* C10 (Scenario C): the round-0 tally of each of the two nodes is an exact
\* tie, one vote for 0 and one vote for 1, so that its new x is the coin.
C10_ScenarioC ==
  N = 2 =>
    \A n \in Nodes :
      PastRoundZero(n) =>
        /\ CountValue(receivedMessages[n][0], 0) = 1
        /\ CountValue(receivedMessages[n][0], 1) = 1

\* ---- C11 ----
\* C11 (Faulty participants are silent): in every state a faulty node has
\* x, decided and k null, no vote of it is in flight and no round loop of
\* it was entered; no step sends a vote of it; and /start on it while not
\* killed answers "Faulty node, not participating" and leaves its state as
\* it was.
C11_FaultySilent ==
  /\ [](\A n \in Nodes : isFaulty[n] =>
          /\ Nulls(nodeState[n])
          /\ \A m \in net : m.from # n
          /\ \A s \in Slots : loops[n][s].pc = "idle")
  /\ [][\A n \in Nodes : isFaulty[n] =>
          /\ \A m \in net' \ net : m.from # n
          /\ (~nodeState[n].killed /\ Start(n)) =>
               /\ StartStatus(n) = "Faulty node, not participating"
               /\ StartResponse(n) = 200
               /\ nodeState'[n] = nodeState[n]]_vars

\* a faulty node that is not killed holds a round-1 vote of a peer
C11_Witness ==
  \E n \in Nodes :
    /\ isFaulty[n] /\ ~nodeState[n].killed
    /\ BagCardinality(receivedMessages[n][1]) >= 1

\* ---- C12 ----
\* C12 (Start on a killed participant is rejected): in every state where a
\* node is killed (by /stop or by the infeasibility outcome of an earlier
\* /start), /start on it answers 400 "Node is stopped", and no /start step
\* on it sends a vote or changes its killed, x, decided or k.
C12_StartOnKilled ==
  \A n \in Nodes :
    nodeState[n].killed =>
      /\ StartResponse(n) = 400
      /\ StartStatus(n) = "Node is stopped"
      /\ ~ENABLED (Start(n) /\ (nodeState'[n] # nodeState[n] \/ net' # net))

\* one node killed by the infeasibility outcome, another one by /stop
C12_Witness ==
  \E n \in Nodes : \E i \in Nodes :
    /\ nodeState[n].killed /\ nodeState[n].k = SentinelK
    /\ nodeState[i].killed /\ Nulls(nodeState[i]) /\ ~isFaulty[i]

\* ---- C13 ----
\* the values a field of nodeState can hold
XValues == {Null, 0, 1}
DecidedValues == {"null", "false", "true"}
KValues == {Null, SentinelK} \cup (0 .. ForcedK)

\* the step A has, from the current state, at most one outcome for x,
\* decided, k and killed of every node
Deterministic(A) ==
  \A i \in Nodes :
    /\ Cardinality({v \in XValues : ENABLED (A /\ nodeState'[i].x = v)}) <= 1
    /\ Cardinality({v \in DecidedValues :
                      ENABLED (A /\ nodeState'[i].decided = v)}) <= 1
    /\ Cardinality({v \in KValues : ENABLED (A /\ nodeState'[i].k = v)}) <= 1
    /\ Cardinality({v \in BOOLEAN :
                      ENABLED (A /\ nodeState'[i].killed = v)}) <= 1

MajorityOrCoin(n, r, coin) ==
  LET ones  == CopiesIn(1, receivedMessages[n][r])
      zeros == CopiesIn(0, receivedMessages[n][r])
  IN  IF ones > zeros THEN 1 ELSE IF zeros > ones THEN 0 ELSE coin

\* C14 (Tally rule): the tally of round r assigns to x the majority of the
\* numeric votes buffered under r at that moment (1 if the ones strictly
\* outnumber the zeros, 0 if the zeros strictly outnumber the ones, the
\* coin on equal counts, also with no numeric vote); abstain votes and
\* votes of other rounds do not count, and a vote that arrives later
\* changes no x.  The x of the tally is what the step leaves in nodeState
\* unless the forced final decision (k = 2) runs in the same step.
C14_TallyRule ==
  [][/\ \A n \in Nodes : \A s \in Slots : \A coin \in {0, 1} :
          TallyWithCoin(n, s, coin) =>
            LET r == loops[n][s].round
            IN  /\ Tallied(n, r, coin).x = MajorityOrCoin(n, r, coin)
                /\ nodeState'[n].k # ForcedK =>
                     nodeState'[n].x = MajorityOrCoin(n, r, coin)
     /\ \A m \in net : Deliver(m) => nodeState' = nodeState
     /\ \A n \in Nodes : \A step \in Steps : \A value \in Values :
          Post(n, step, value) => nodeState' = nodeState]_vars

\* a node that was not stopped is past its round-0 tally with one vote for
\* 0, one vote for 1 and an abstain vote in its round-0 buffer
C14_Witness ==
  \E n \in Nodes :
    /\ ~nodeState[n].killed /\ nodeState[n].k = 1
    /\ loops[n][1].pc \in {"broadcast", "collect"} /\ loops[n][1].round = 1
    /\ receivedMessages[n][0] =
         SetToBag({0}) (+) SetToBag({1}) (+) SetToBag({Abstain})
    /\ posted = MaxPosted /\ net = {}

\* ---- C15 ----
\* C15 (Null-state invariant): in every state and for every node, x = null
\* implies that the node is faulty or killed, and so do decided = null and
\* k = null.
C15_NullState ==
  \A n \in Nodes :
    (\/ nodeState[n].x = Null
     \/ nodeState[n].decided = "null"
     \/ nodeState[n].k = Null) => (isFaulty[n] \/ nodeState[n].killed)

\* a stopped non-faulty node and a faulty node that is not killed, both
\* with the three fields null
C15_Witness ==
  \E n \in Nodes : \E i \in Nodes :
    /\ ~isFaulty[n] /\ nodeState[n].killed /\ Nulls(nodeState[n])
    /\ isFaulty[i] /\ ~nodeState[i].killed /\ Nulls(nodeState[i])

\* ---- C16 ----
Feasible == ~(2 * F > N)

\* k moves only 0 -> 1 -> 2 over this step
RoundAdvances(n) ==
  \/ nodeState'[n].k = nodeState[n].k
  \/ nodeState[n].k = 0 /\ nodeState'[n].k = 1
  \/ nodeState[n].k = 1 /\ nodeState'[n].k = ForcedK

RoundValues ==
  /\ Feasible => \A n \in Nodes : nodeState[n].k \in {Null} \cup (0 .. ForcedK)
  /\ \A n \in Nodes : nodeState[n].k = SentinelK => ~Feasible
  /\ \A n \in Nodes : nodeState[n].k # SentinelK => nodeState[n].k < SentinelK

\* C16 as stated (Round values and the sentinel): for F <= N/2 every state
\* has k in {null, 0, 1, 2}, k = 11 is reached only when F > N/2, and over
\* every step of a node that is not stopped k moves only 0 -> 1 -> 2,
\* whatever is invoked on the node.
C16_RoundMonotone ==
  /\ []RoundValues
  /\ [][\A n \in Nodes :
          (Feasible /\ ~nodeState[n].killed /\ ~nodeState'[n].killed) =>
            RoundAdvances(n)]_vars

\* C16 amended: for F <= N/2 every state has k in {null, 0, 1, 2}, k = 11 is
\* reached only when F > N/2, and for a node whose /start entered the round
\* loop at most once k moves only 0 -> 1 -> 2 over every step while the
\* node is not stopped.
C16_RoundMonotoneOneStart ==
  /\ []RoundValues
  /\ [][\A n \in Nodes :
          (/\ Feasible /\ OneStart(n)'
           /\ ~nodeState[n].killed /\ ~nodeState'[n].killed) =>
            RoundAdvances(n)]_vars

\* a node, started once and not stopped, went through k = 0, 1 and ended
\* at k = 2 while its peer ended a round earlier
C16_Witness ==
  \E n \in Nodes : \E i \in Nodes :
    /\ Feasible /\ OneStart(n) /\ ~nodeState[n].killed
    /\ loops[n][1].pc = "done" /\ nodeState[n].k = ForcedK
    /\ loops[i][1].pc = "done" /\ nodeState[i].k = 1 /\ ~nodeState[i].killed

\* ---- C17 ----
\* C17 (killed is irreversible): over every step (a /start, /stop, /status
\* or /getState, a vote delivered or lost, a round loop resuming), a node
\* that is killed before the step is killed after it.
C17_KilledIrreversible ==
  [][\A n \in Nodes : nodeState[n].killed => nodeState'[n].killed]_vars

\* a node was stopped while its round loop ran, and the loop has since run
\* to its end and written x, decided and k
C17_Witness ==
  \E n \in Nodes :
    /\ Feasible /\ ~isFaulty[n] /\ nodeState[n].killed
    /\ loops[n][1].pc = "done" /\ nodeState[n].k = ForcedK

\* ---- C18 ----
\* a step of a handler that runs on node i
HandlerOf(i) ==
  \/ Start(i)
  \/ Stop(i)
  \/ \E s \in Slots : BroadcastDone(i, s) \/ Tally(i, s)

\* C18 (Ownership frame): /status and /getState change no node state;
\* accepting a vote changes no node state; no step of a handler that runs
\* on node i (/start with its round loop, /stop) changes killed, x, decided
\* or k of another node j; and a buffer of j changes only by a vote of a
\* peer being appended to it.
C18_OwnershipFrame ==
  /\ [](\A n \in Nodes :
          /\ ~ENABLED (Status(n) /\ nodeState' # nodeState)
          /\ ~ENABLED (GetState(n) /\ nodeState' # nodeState))
  /\ [][/\ \A m \in net : Deliver(m) => nodeState' = nodeState
        /\ \A i \in Nodes : HandlerOf(i) =>
             /\ \A j \in Nodes \ {i} : nodeState'[j] = nodeState[j]
             /\ receivedMessages' = receivedMessages
        /\ \A j \in Nodes :
             receivedMessages'[j] # receivedMessages[j] =>
               \E m \in net :
                 /\ m.to = j /\ m.from # j /\ Deliver(m)
                 /\ receivedMessages'[j][m.step] =
                      receivedMessages[j][m.step] (+) SetToBag({m.value})]_vars

\* a node on which nothing was invoked holds its peer's votes of both
\* rounds, its peer has finished, and its own state is as constructed
C18_Witness ==
  \E i \in Nodes : \E j \in Nodes \ {i} :
    /\ loops[i][1].pc = "done"
    /\ \A s \in Slots : loops[j][s].pc = "idle"
    /\ \A r \in Steps : BagCardinality(receivedMessages[j][r]) >= 1
    /\ ~isFaulty[j]
    /\ nodeState[j] \in {InitialNodeState(v, FALSE) : v \in InitialValues}

\* ---- C19 ----
\* the /start handler of n enters round r over this step
EntersRound(n, r) ==
  /\ loops'[n][1] = [pc |-> "broadcast", round |-> r]
  /\ loops[n][1] # loops'[n][1]

\* C19 (Own vote is never counted): with every node started at most once
\* and votes coming only from the peers' broadcasts, a node that enters
\* round r sends exactly one vote for r, carrying its x, to each other node
\* and none to itself, and no other step sends a vote; every buffer of
\* every round holds at most N - 1 votes; and with F = 0 no node decides
\* below the round cap: every non-faulty node that was not stopped and
\* whose /start has returned has x = 1, decided = true, k = 2, and decided
\* is true only then.
C19_OwnVoteNotCounted ==
  /\ [](/\ \A m \in net : m.from # m.to
        /\ \A n \in Nodes : \A r \in Steps :
             BagCardinality(receivedMessages[n][r]) <= N - 1
        /\ F = 0 =>
             \A n \in Nodes : ~nodeState[n].killed =>
               /\ loops[n][1].pc = "done" =>
                    /\ nodeState[n].x = 1
                    /\ nodeState[n].decided = "true"
                    /\ nodeState[n].k = ForcedK
               /\ nodeState[n].decided = "true" => loops[n][1].pc = "done")
  /\ [][/\ \A n \in Nodes : \A r \in Steps :
             EntersRound(n, r) =>
               /\ \A i \in Nodes \ {n} :
                    Cardinality({m \in net' \ net :
                                   /\ m.from = n /\ m.to = i
                                   /\ m.step = r /\ m.value = nodeState'[n].x}) = 1
               /\ Cardinality(net' \ net) = N - 1
        /\ (\A n \in Nodes : \A r \in Steps : ~EntersRound(n, r)) =>
             net' \subseteq net]_vars

\* three nodes with F = 0 that all started with x = 0 (each got two votes
\* for 0 in round 0) have all finished
C19_Witness ==
  /\ N = 3 /\ F = 0
  /\ \A n \in Nodes :
       /\ loops[n][1].pc = "done"
       /\ CountValue(receivedMessages[n][0], 0) = 2
       /\ nodeState[n].x = 1 /\ nodeState[n].k = ForcedK

\* ---- C20 ----
\* the votes this step sends
SentNow == net' \ net

\* every vote sent carries the x and the round its sender has at the start
\* of that round
CarriesBelief ==
  \A m \in SentNow :
    /\ m.value = nodeState'[m.from].x
    /\ m.step = nodeState'[m.from].k

\* the round-r buffer of n holds at least N - F votes for one value
SuperMajorityIn(n, r) ==
  \E v \in {0, 1} : CopiesIn(v, receivedMessages[n][r]) >= N - F

\* C20 (A decided participant goes silent): the step in which a node sets
\* decided = true leaves the round loop and sends no vote; a decision in
\* round 0 rests on N - F equal votes in the round-0 buffer, which stay
\* there, and from then on no vote of the node for round 1 is sent, also
\* if /start is invoked on it again (a stopped node sends nothing at all);
\* no vote is ever sent for a round above 1; and every vote sent for round
\* r carries the x its sender holds at the start of round r.
C20_DecidedSilent ==
  /\ [](\A m \in net : m.step \in Steps)
  /\ [][/\ \A n \in Nodes : \A s \in Slots :
             (/\ Tally(n, s)
              /\ nodeState[n].decided # "true"
              /\ nodeState'[n].decided = "true") =>
               /\ loops'[n][s].pc = "done"
               /\ \A m \in SentNow : m.from # n
               /\ (loops[n][s].round = 0 /\ ~nodeState[n].killed) =>
                    SuperMajorityIn(n, 0)
        /\ \A n \in Nodes :
             /\ SuperMajorityIn(n, 0) => SuperMajorityIn(n, 0)'
             /\ SuperMajorityIn(n, 0) =>
                  \A m \in SentNow : m.from = n => m.step = 0
             /\ nodeState[n].killed => \A m \in SentNow : m.from # n
        /\ CarriesBelief]_vars

\* a node decided in round 0 on its peer's vote and went silent: its peer,
\* which tallied round 0 before that vote arrived, ran round 1 with an
\* empty buffer and ended at the round cap
C20_Witness ==
  \E n \in Nodes : \E i \in Nodes \ {n} :
    /\ OneStart(n) /\ ~nodeState[n].killed /\ loops[n][1].pc = "done"
    /\ nodeState[n].decided = "true" /\ nodeState[n].k = 0
    /\ SuperMajorityIn(n, 0)
    /\ OneStart(i) /\ ~nodeState[i].killed /\ loops[i][1].pc = "done"
    /\ nodeState[i].k = ForcedK
    /\ receivedMessages[i][1] = EmptyBag
    /\ net = {} /\ lost = 0

====
